---- MODULE Spec2Model ----
(***************************************************************************)
(* Model of src/app.py: a Streamlit page that loads a CSV of songs, shows  *)
(* global metrics and four filter widgets, and on "Search Songs" filters   *)
(* the frame stage by stage (artist, track, year, genre) and renders the   *)
(* result with a CSV download; otherwise it renders a 10-row preview.      *)
(*                                                                         *)
(* One action is one interaction cycle: Streamlit reruns main() from the   *)
(* top on every widget change and on every button press.                   *)
(*                                                                         *)
(* Text is a sequence of one-character strings.  A nullable text cell is   *)
(* a record [na, str] (pandas NaN when na).  A frame is a sequence of rows,*)
(* each carrying the pandas index label it got from read_csv.              *)
(***************************************************************************)
EXTENDS Integers, Sequences, FiniteSets, TLC

VARIABLES
    file_exists,      \* os.path.exists(updated_spotify_data_csv)
    file_rows,        \* the data rows of the CSV file, in file order
    artist_name,      \* st.text_input "Artist Name" (session widget state)
    track_name,       \* st.text_input "Track Name"
    year_range,       \* st.slider "Year Range": <<low, high>>
    selected_genres,  \* st.multiselect "Genres"
    clicked,          \* what st.button returned in the last run
    songs_df,         \* the frame load_songs returned in the last run
    view,             \* which branch of main the last run ended in
    rendered,         \* the page elements the last run rendered
    alerts,           \* the texts of the st.error / st.warning boxes rendered
    metrics,          \* the global metrics (lines 35-43), << >> when not computed
    stages,           \* filtered_songs after each of the four stages
    filtered_songs,   \* the final filtered frame of a search
    result_metrics,   \* the metrics of the result (lines 115-121)
    table,            \* the frame handed to st.dataframe (result or preview)
    csv,              \* the data of the download button: header line + lines
    caption           \* the total-row-count caption: << >> or <<shown, total>>

vars == <<file_exists, file_rows, artist_name, track_name, year_range,
          selected_genres, clicked, songs_df, view, rendered, alerts, metrics, stages,
          filtered_songs, result_metrics, table, csv, caption>>

widgets == <<artist_name, track_name, year_range, selected_genres>>

----------------------------------------------------------------------------
(* Bounds and input pools *)

\* the longest dataset whose rows are chosen freely from SongPool
MaxRows == 2

\* songs_df.head(10) and len(songs_df) > 10
PreviewRows == 10

NaN == [na |-> TRUE, str |-> << >>]
Text(s) == [na |-> FALSE, str |-> s]

Pop == <<"P", "o", "p">>
Rock == <<"R", "o", "c", "k">>

Song(i, a, t, tid, y, g) ==
    [id |-> i, artist_name |-> a, track_name |-> t, track_id |-> tid,
     year |-> y, genre |-> g]

SongA == Song(1, Text(<<"A", "b">>), Text(<<"b", "A">>), <<"t", "1">>, 1999, Pop)
SongB == Song(2, Text(<<"A", "b">>), NaN, <<"t", "2">>, 2000, Rock)
SongC == Song(3, NaN, Text(<<"b", "A">>), <<"t", "4">>, 2001, Rock)

\* the rows a CSV file is made of: year is an integer and genre a text in
\* every row, artist_name and track_name may be empty cells (NaN); id is not
\* unique (two rows share id 3)
SongPool ==
    { SongA, SongB, SongC,
      Song(3, Text(<<"b", ".">>), Text(<<"b", "A">>), <<"t", "3">>, 2000, Pop),
      Song(5, Text(<<"A", "b">>), Text(<<"a">>),      <<"t", "5">>, 2001, Pop),
      Song(6, Text(<<"a", "B">>), Text(<<"a">>),      <<"t", "6">>, 1999, Rock),
      Song(7, NaN,                NaN,                <<"t", "7">>, 2000, Pop),
      Song(8, Text(<<"b", ".">>), NaN,                <<"t", "8">>, 2001, Rock) }

\* row i of a file of n rows that repeats base
Cycle(base, n) == [i \in 1..n |-> base[((i - 1) % Len(base)) + 1]]

\* files of up to MaxRows freely chosen rows (none: a header-only file)
ShortFiles == UNION {[1..n -> SongPool] : n \in 0..MaxRows}

\* files long enough for the preview to cut them
LongFiles == {Cycle(<<SongA, SongB, SongC>>, n) : n \in {PreviewRows, PreviewRows + 1}}

\* what the user may type into the two text inputs
ArtistQueries == { << >>, <<"a", "B">>, <<"a", ".">>, <<"*">> }
TrackQueries == { << >>, <<"B", "a">> }

----------------------------------------------------------------------------
(* Frames *)

Min(S) == CHOOSE x \in S : \A y \in S : x <= y
Max(S) == CHOOSE x \in S : \A y \in S : x >= y

\* pd.read_csv: one frame row per data row, labelled 0..n-1 (RangeIndex)
read_csv(rows) == [i \in 1..Len(rows) |-> [index |-> i - 1, row |-> rows[i]]]

\* the rows of a frame without their index labels
Rows(df) == [i \in 1..Len(df) |-> df[i].row]

\* df.empty
Empty(df) == Len(df) = 0

\* df[name]: a column of the frame as a Series
Column(df, name) == [i \in 1..Len(df) |-> df[i].row[name]]

\* df[mask], mask a boolean Series over df: the rows whose mask element is
\* True, with their labels, in their order
RECURSIVE Mask(_, _)
Mask(df, mask) ==
    IF df = << >> THEN << >>
    ELSE (IF Head(mask) THEN <<Head(df)>> ELSE << >>) \o Mask(Tail(df), Tail(mask))

\* df.head(n)
head(df, n) == SubSeq(df, 1, IF Len(df) < n THEN Len(df) ELSE n)

\* Series.nunique() of a text column: the number of distinct non-null values
nunique(series) ==
    Cardinality({series[i].str : i \in {j \in 1..Len(series) : ~series[j].na}})

\* the values of songs_df['year'], of which min() and max() are taken
YearsOf(df) == {df[i].row.year : i \in 1..Len(df)}

\* songs_df['genre'].unique(); sorted() only fixes the order of the options
GenresOf(df) == {df[i].row.genre : i \in 1..Len(df)}

----------------------------------------------------------------------------
(* Series.str.contains(pat, case=False, na=False): regex defaults to True, *)
(* so pat is compiled with re.IGNORECASE and searched for in every value.  *)
(* The pattern language modelled is the one the query characters can       *)
(* spell: literal letters, "." (any character) and the postfix "*".        *)

Lower(c) == CASE c = "A" -> "a" [] c = "B" -> "b" [] OTHER -> c

\* re.compile: "nothing to repeat" / "multiple repeat" raise re.error
Compiles(pat) ==
    \A i \in 1..Len(pat) : pat[i] = "*" => (i > 1 /\ pat[i - 1] # "*")

AtomMatch(a, c) == a = "." \/ Lower(a) = Lower(c)

RECURSIVE MatchHere(_, _, _, _)
MatchHere(pat, i, s, j) ==
    IF i > Len(pat) THEN TRUE
    ELSE IF i + 1 <= Len(pat) /\ pat[i + 1] = "*"
         THEN \E k \in j..(Len(s) + 1) :
                 /\ \A m \in j..(k - 1) : AtomMatch(pat[i], s[m])
                 /\ MatchHere(pat, i + 2, s, k)
         ELSE /\ j <= Len(s)
              /\ AtomMatch(pat[i], s[j])
              /\ MatchHere(pat, i + 1, s, j + 1)

\* re.search
Search(pat, s) == \E j \in 1..(Len(s) + 1) : MatchHere(pat, 1, s, j)

\* the boolean Series str.contains returns; na=False makes NaN False
str_contains(series, pat) ==
    [i \in 1..Len(series) |->
        IF series[i].na THEN FALSE ELSE Search(pat, series[i].str)]

\* Series.isin(values)
isin(series, values) == [i \in 1..Len(series) |-> series[i] \in values]

----------------------------------------------------------------------------
(* DataFrame.to_csv(index=False) *)

\* the columns of the input file, in file order
Columns == <<"id", "artist_name", "track_name", "track_id", "year", "genre">>

Digit(d) ==
    CASE d = 0 -> "0" [] d = 1 -> "1" [] d = 2 -> "2" [] d = 3 -> "3"
      [] d = 4 -> "4" [] d = 5 -> "5" [] d = 6 -> "6" [] d = 7 -> "7"
      [] d = 8 -> "8" [] d = 9 -> "9"

\* the decimal text of a non-negative integer
RECURSIVE IntToStr(_)
IntToStr(n) ==
    IF n < 10 THEN <<Digit(n)>> ELSE IntToStr(n \div 10) \o <<Digit(n % 10)>>

\* the text written for one cell; NaN is written as the empty field
CsvCell(r, c) ==
    CASE c = "id" -> IntToStr(r.id)
      [] c = "artist_name" -> (IF r.artist_name.na THEN << >> ELSE r.artist_name.str)
      [] c = "track_name" -> (IF r.track_name.na THEN << >> ELSE r.track_name.str)
      [] c = "track_id" -> r.track_id
      [] c = "year" -> IntToStr(r.year)
      [] c = "genre" -> r.genre

\* variant: to_csv() with its default index=True, which writes the index
\* label as a first, unnamed column
to_csv_with_index(df) ==
    <<(<<"">> \o Columns)>> \o
    [i \in 1..Len(df) |->
        <<IntToStr(df[i].index)>> \o
        [k \in 1..Len(Columns) |-> CsvCell(df[i].row, Columns[k])]]

\* the header line, then one line per frame row; no index column
to_csv(df) ==
    <<Columns>> \o
    [i \in 1..Len(df) |-> [k \in 1..Len(Columns) |-> CsvCell(df[i].row, Columns[k])]]

----------------------------------------------------------------------------
(* main: the four filter stages (lines 79-101) *)

\* variant: the artist stage without its "if artist_name:" guard
ArtistStageUnguarded(df, query) ==
    Mask(df, str_contains(Column(df, "artist_name"), query))

\* lines 82-85
ArtistStage(df, query) ==
    IF query # << >>
    THEN Mask(df, str_contains(Column(df, "artist_name"), query))
    ELSE df

\* variant: the track stage indexes songs_df instead of filtered_songs, and
\* so drops what the artist stage did
TrackStageFromSource(df, query) ==
    IF query # << >>
    THEN Mask(songs_df, str_contains(Column(songs_df, "track_name"), query))
    ELSE df

\* lines 88-91
TrackStage(df, query) ==
    IF query # << >>
    THEN Mask(df, str_contains(Column(df, "track_name"), query))
    ELSE df

\* variant: the upper bound compared with < instead of <=
YearStageExclusive(df, yr) ==
    LET year == Column(df, "year")
    IN  Mask(df, [i \in 1..Len(df) |-> year[i] >= yr[1] /\ year[i] < yr[2]])

\* lines 94-97
YearStage(df, yr) ==
    LET year == Column(df, "year")
    IN  Mask(df, [i \in 1..Len(df) |-> year[i] >= yr[1] /\ year[i] <= yr[2]])

\* variant: the genre stage without its "if selected_genres:" guard
GenreStageUnguarded(df, genres) == Mask(df, isin(Column(df, "genre"), genres))

\* variant: the genre stage concatenates one selection per genre (Pop first),
\* which groups the rows by genre
GenreStageConcat(df, genres) ==
    IF genres # {}
    THEN Mask(df, isin(Column(df, "genre"), genres \cap {Pop}))
         \o Mask(df, isin(Column(df, "genre"), genres \ {Pop}))
    ELSE df

\* lines 100-101
GenreStage(df, genres) ==
    IF genres # {}
    THEN Mask(df, isin(Column(df, "genre"), genres))
    ELSE df

\* filtered_songs after each stage, in the order the code applies them
Pipeline(df, a, t, yr, g) ==
    LET s1 == ArtistStage(df, a)
        s2 == TrackStage(s1, t)
        s3 == YearStage(s2, yr)
        s4 == GenreStage(s3, g)
    IN [artist |-> s1, track |-> s2, year |-> s3, genre |-> s4]

\* read_csv infers float64 for a column whose every cell is empty; only a
\* column holding text (dtype object) has the .str accessor, the other raises
\* AttributeError
HasStrAccessor(series) == \E i \in 1..Len(series) : ~series[i].na

\* a stage whose query is non-empty raises when the column has no .str
\* accessor or when re.compile rejects the query
Raises(df, a, t) ==
    \/ a # << >> /\ (~HasStrAccessor(Column(df, "artist_name")) \/ ~Compiles(a))
    \/ t # << >> /\ (~HasStrAccessor(Column(df, "track_name")) \/ ~Compiles(t))

NoStages == [artist |-> << >>, track |-> << >>, year |-> << >>, genre |-> << >>]

----------------------------------------------------------------------------
(* load_songs and main *)

MsgFileNotFound ==
    "File 'updated_spotify_data.csv' not found. Please make sure your data file exists."
MsgNoData ==
    "No songs data available. Please check if your CSV file exists and contains data."
MsgNoMatch ==
    "No songs found matching your criteria. Try adjusting your filters."

\* variant: load_songs without the st.error call of line 19
load_songs_silent(exists, rows) ==
    IF exists
    THEN [df |-> read_csv(rows), alerts |-> {}]
    ELSE [df |-> << >>, alerts |-> {}]

\* lines 14-20: the frame, and the st.error box of the missing file
load_songs(exists, rows) ==
    IF exists
    THEN [df |-> read_csv(rows), alerts |-> {}]
    ELSE [df |-> << >>, alerts |-> {MsgFileNotFound}]

\* lines 35-43 and 115-121
Metrics(df) ==
    [total |-> Len(df),
     artists |-> nunique(Column(df, "artist_name")),
     years |-> <<Min(YearsOf(df)), Max(YearsOf(df))>>,
     genres |-> Cardinality(GenresOf(df))]

\* lines 58-59 and 64: the slider's bounds and default value (one value
\* when every row has the same year)
DefaultYearRange(df) == <<Min(YearsOf(df)), Max(YearsOf(df))>>

\* lines 60-63: the integers the slider's handles can be put on
SliderValues(df) ==
    IF Empty(df) THEN {} ELSE Min(YearsOf(df))..Max(YearsOf(df))

\* a run that renders nothing past the title
Blank ==
    [view |-> "no_data", rendered |-> {"title"}, alerts |-> {},
     metrics |-> << >>, stages |-> NoStages, filtered_songs |-> << >>,
     result_metrics |-> << >>, table |-> << >>, csv |-> << >>, caption |-> << >>]

\* lines 23-25, 35-43 and 48-74: what every run over a non-empty frame renders
Top == {"title", "metrics", "filters"}

\* lines 30-32: the warning, then return
NoDataPage(ld) == [Blank EXCEPT !.alerts = ld.alerts \cup {MsgNoData}]

\* an exception raised inside lines 83-91 ends the run there
ExceptionPage(df) ==
    [Blank EXCEPT !.view = "exception",
                  !.rendered = Top \cup {"exception"},
                  !.metrics = <<Metrics(df)>>]

\* variant: the table and the download button rendered outside the else of
\* line 109, and so for an empty result too
NoMatchesPageWithDownload(df, st) ==
    [Blank EXCEPT !.view = "no_matches",
                  !.rendered = Top \cup {"results_header", "result_table", "download"},
                  !.alerts = {MsgNoMatch},
                  !.metrics = <<Metrics(df)>>,
                  !.stages = st,
                  !.csv = to_csv(st.genre)]

\* lines 104-108
NoMatchesPage(df, st) ==
    [Blank EXCEPT !.view = "no_matches",
                  !.rendered = Top \cup {"results_header"},
                  !.alerts = {MsgNoMatch},
                  !.metrics = <<Metrics(df)>>,
                  !.stages = st]

\* lines 104-105 and 109-146
ResultsPage(df, st) ==
    [Blank EXCEPT !.view = "results",
                  !.rendered = Top \cup {"results_header", "success",
                                         "result_metrics", "result_table", "download"},
                  !.metrics = <<Metrics(df)>>,
                  !.stages = st,
                  !.filtered_songs = st.genre,
                  !.result_metrics = <<Metrics(st.genre)>>,
                  !.table = st.genre,
                  !.csv = to_csv(st.genre)]

\* lines 149-170
PreviewPage(df) ==
    [Blank EXCEPT !.view = "preview",
                  !.rendered = Top \cup {"preview_header", "preview_table"}
                      \cup (IF Len(df) > PreviewRows THEN {"caption"} ELSE {}),
                  !.metrics = <<Metrics(df)>>,
                  !.table = head(df, PreviewRows),
                  !.caption = IF Len(df) > PreviewRows
                              THEN <<PreviewRows, Len(df)>> ELSE << >>]

\* lines 77-108: the button's branch
SearchPage(df, a, t, yr, g) ==
    IF Raises(df, a, t)
    THEN ExceptionPage(df)
    ELSE LET st == Pipeline(df, a, t, yr, g)
         IN  IF Empty(st.genre) THEN NoMatchesPage(df, st) ELSE ResultsPage(df, st)

\* what one run of main renders, given what load_songs returned, the widget
\* values of this run and whether the button was pressed
Page(ld, a, t, yr, g, pressed) ==
    IF Empty(ld.df) THEN NoDataPage(ld)
    ELSE IF pressed THEN SearchPage(ld.df, a, t, yr, g)
    ELSE PreviewPage(ld.df)

----------------------------------------------------------------------------
(* The session: one action per interaction cycle *)

\* the first run of the script: every widget takes its default value
Init ==
    /\ file_exists \in BOOLEAN
    /\ file_rows \in (IF file_exists THEN ShortFiles \cup LongFiles ELSE {<< >>})
    /\ LET ld == load_songs(file_exists, file_rows)
           shown == ~Empty(ld.df)
           a == << >>
           t == << >>
           yr == IF shown THEN DefaultYearRange(ld.df) ELSE <<0, 0>>
           g == IF shown THEN GenresOf(ld.df) ELSE {}
       IN  \E pg \in {Page(ld, a, t, yr, g, FALSE)} :
           /\ songs_df = ld.df
           /\ clicked = FALSE
           /\ artist_name = a
           /\ track_name = t
           /\ year_range = yr
           /\ selected_genres = g
           /\ view = pg.view
           /\ rendered = pg.rendered
           /\ alerts = pg.alerts
           /\ metrics = pg.metrics
           /\ stages = pg.stages
           /\ filtered_songs = pg.filtered_songs
           /\ result_metrics = pg.result_metrics
           /\ table = pg.table
           /\ csv = pg.csv
           /\ caption = pg.caption

\* one rerun of main (lines 22-170) with the given widget values; the
\* widgets are only reached, and so only take a value, past line 32
main(a, t, yr, g, pressed) ==
    \E ld \in {load_songs(file_exists, file_rows)} :
    \E pg \in {Page(ld, a, t, yr, g, pressed)} :
        /\ songs_df' = ld.df
        /\ clicked' = (pressed /\ ~Empty(ld.df))
        /\ IF Empty(ld.df)
           THEN UNCHANGED widgets
           ELSE /\ artist_name' = a
                /\ track_name' = t
                /\ year_range' = yr
                /\ selected_genres' = g
        /\ view' = pg.view
        /\ rendered' = pg.rendered
        /\ alerts' = pg.alerts
        /\ metrics' = pg.metrics
        /\ stages' = pg.stages
        /\ filtered_songs' = pg.filtered_songs
        /\ result_metrics' = pg.result_metrics
        /\ table' = pg.table
        /\ csv' = pg.csv
        /\ caption' = pg.caption
        /\ UNCHANGED <<file_exists, file_rows>>

\* line 53: the user submits a new artist text
SetArtistName(q) ==
    /\ "filters" \in rendered
    /\ q # artist_name
    /\ main(q, track_name, year_range, selected_genres, FALSE)

\* line 54: the user submits a new track text
SetTrackName(q) ==
    /\ "filters" \in rendered
    /\ q # track_name
    /\ main(artist_name, q, year_range, selected_genres, FALSE)

\* lines 58-65: the user moves a slider handle within [min_year, max_year]
SetYearRange(lo, hi) ==
    /\ "filters" \in rendered
    /\ lo <= hi
    /\ <<lo, hi>> # year_range
    /\ main(artist_name, track_name, <<lo, hi>>, selected_genres, FALSE)

\* lines 68-74: the user changes the selection among the options
SetGenres(g) ==
    /\ "filters" \in rendered
    /\ g # selected_genres
    /\ main(artist_name, track_name, year_range, g, FALSE)

\* line 77: the user presses "Search Songs"
ClickSearch ==
    /\ "filters" \in rendered
    /\ main(artist_name, track_name, year_range, selected_genres, TRUE)

\* the user reruns the script without touching a widget
Rerun ==
    /\ "title" \in rendered
    /\ main(artist_name, track_name, year_range, selected_genres, FALSE)

Next ==
    \/ \E q \in ArtistQueries : SetArtistName(q)
    \/ \E q \in TrackQueries : SetTrackName(q)
    \/ \E lo \in SliderValues(songs_df) :
         \E hi \in SliderValues(songs_df) : SetYearRange(lo, hi)
    \/ \E g \in SUBSET GenresOf(songs_df) : SetGenres(g)
    \/ ClickSearch
    \/ Rerun

Spec == Init /\ [][Next]_vars

\* the sessions over the files of freely chosen rows
InitSmallFiles == Init /\ Len(file_rows) <= MaxRows

SpecSmallFiles == InitSmallFiles /\ [][Next]_vars

----------------------------------------------------------------------------
(* Properties *)

\* the last run was a search that ran to its end
Searched == view \in {"results", "no_matches"}

\* the result of that search
Result == stages.genre

\* q occurs in s as a literal substring, letter case ignored
LiteralContains(s, q) ==
    \E i \in 0..(Len(s) - Len(q)) :
        \A k \in 1..Len(q) : Lower(s[i + k]) = Lower(q[k])

\* the cell is present and holds q as a literal substring, case ignored
CellContains(cell, q) == ~cell.na /\ LiteralContains(cell.str, q)

\* s can be obtained from t by deleting elements
RECURSIVE IsSubseq(_, _)
IsSubseq(s, t) ==
    IF s = << >> THEN TRUE
    ELSE IF t = << >> THEN FALSE
    ELSE IF Head(s) = Head(t) THEN IsSubseq(Tail(s), Tail(t))
    ELSE IsSubseq(s, Tail(t))

Elems(df) == {df[i] : i \in 1..Len(df)}

C2_LiteralSubstringStages ==
    Searched =>
        /\ LET Keep(e) == CellContains(e.row.artist_name, artist_name)
           IN  stages.artist =
                   IF artist_name # << >> THEN SelectSeq(songs_df, Keep) ELSE songs_df
        /\ LET Keep(e) == CellContains(e.row.track_name, track_name)
           IN  stages.track =
                   IF track_name # << >> THEN SelectSeq(stages.artist, Keep)
                   ELSE stages.artist

\* C3: a search with the default criteria (both queries empty, the full year
\* range, every genre of the dataset selected) returns the whole dataset, in
\* order, and shows it.
C3_DefaultCriteriaReturnAll ==
    ( /\ clicked
      /\ artist_name = << >>
      /\ track_name = << >>
      /\ year_range = DefaultYearRange(songs_df)
      /\ selected_genres = GenresOf(songs_df) ) =>
        /\ view = "results"
        /\ filtered_songs = songs_df
        /\ table = songs_df

C3_Witness ==
    /\ clicked
    /\ artist_name = << >>
    /\ track_name = << >>
    /\ year_range = DefaultYearRange(songs_df)
    /\ selected_genres = GenresOf(songs_df)
    /\ view = "results"
    /\ Len(songs_df) >= 2
    /\ \E i \in 1..Len(songs_df) : songs_df[i].row.artist_name.na
    /\ Cardinality(YearsOf(songs_df)) >= 2

\* C4: when the file does not exist, load_songs returns the empty frame and
\* shows the file-not-found error; main stops in the 'no data' state: no
\* metrics, no filter widgets, no preview, no results, no filtering.
C4_MissingFileStopsInNoData ==
    ~file_exists =>
        /\ songs_df = << >>
        /\ MsgFileNotFound \in alerts
        /\ view = "no_data"
        /\ rendered = {"title"}
        /\ metrics = << >>
        /\ ~clicked
        /\ stages = NoStages
        /\ table = << >>
        /\ csv = << >>

C4_Witness == ~file_exists /\ view = "no_data" /\ MsgFileNotFound \in alerts

\* C5: a search that yields zero rows shows the 'no matches' message and
\* none of the result metrics, the result table or the download; the state
\* needs a loaded non-empty dataset and its message is not the data-source one.
C5_NoMatchesSuppressesResults ==
    (clicked /\ view # "exception" /\ Result = << >>) =>
        /\ view = "no_matches"
        /\ MsgNoMatch \in alerts
        /\ rendered \cap {"success", "result_metrics", "result_table", "download",
                          "preview_table", "caption"} = {}
        /\ result_metrics = << >>
        /\ table = << >>
        /\ csv = << >>
        /\ ~Empty(songs_df)
        /\ file_exists
        /\ MsgNoMatch # MsgFileNotFound
        /\ alerts \cap {MsgFileNotFound, MsgNoData} = {}

C5_Witness ==
    /\ view = "no_matches"
    /\ clicked
    /\ stages.artist # << >>
    /\ Result = << >>

\* C6: the result of a search is a subsequence of the dataset: rows unchanged,
\* none more often than in the dataset, relative order kept; and every stage's
\* output is a subsequence of its input.
C6_ResultIsSubsequence ==
    Searched =>
        /\ IsSubseq(Rows(Result), Rows(songs_df))
        /\ IsSubseq(Result, songs_df)
        /\ IsSubseq(stages.artist, songs_df)
        /\ IsSubseq(stages.track, stages.artist)
        /\ IsSubseq(stages.year, stages.track)
        /\ IsSubseq(stages.genre, stages.year)
        /\ view = "results" => filtered_songs = Result

C6_Witness ==
    /\ view = "results"
    /\ Len(Result) >= 2
    /\ Len(Result) < Len(songs_df)
    /\ Result[1].row = Result[2].row

\* C7: the year stage keeps exactly the rows with year_min <= year <= year_max,
\* both ends included, whatever the other criteria are; no row outside the
\* range is in the result.
C7_YearRangeInclusive ==
    Searched =>
        /\ \A e \in Elems(stages.track) :
              (e \in Elems(stages.year)) <=>
                  (year_range[1] <= e.row.year /\ e.row.year <= year_range[2])
        /\ \A e \in Elems(Result) :
              year_range[1] <= e.row.year /\ e.row.year <= year_range[2]

C7_Witness ==
    /\ view = "results"
    /\ \E e \in Elems(stages.track) : e.row.year < year_range[1]
    /\ \E e \in Elems(stages.track) : e.row.year > year_range[2]
    /\ \E e \in Elems(Result) : e.row.year = year_range[1]
    /\ \E e \in Elems(Result) : e.row.year = year_range[2]

\* the four stages by name, with the criteria of the last run
StageNames == {"artist", "track", "year", "genre"}

ApplyStage(name, df) ==
    CASE name = "artist" -> ArtistStage(df, artist_name)
      [] name = "track" -> TrackStage(df, track_name)
      [] name = "year" -> YearStage(df, year_range)
      [] name = "genre" -> GenreStage(df, selected_genres)

\* the orders the four stages can be applied in
StageOrders == {p \in [1..4 -> StageNames] : \A i, j \in 1..4 : p[i] = p[j] => i = j}

ApplyInOrder(p, df) ==
    ApplyStage(p[4], ApplyStage(p[3], ApplyStage(p[2], ApplyStage(p[1], df))))

\* C8: applying the four stages in any order gives the result the code's
\* order (artist, track, year, genre) gives.
C8_StagesCommute ==
    Searched => \A p \in StageOrders : ApplyInOrder(p, songs_df) = Result

C8_Witness ==
    /\ view = "results"
    /\ artist_name # << >>
    /\ track_name # << >>
    /\ Len(stages.artist) < Len(songs_df)
    /\ Len(stages.track) < Len(stages.artist)

\* the integer a decimal text stands for
RECURSIVE StrToInt(_)
StrToInt(s) ==
    IF Len(s) = 0 THEN 0
    ELSE 10 * StrToInt(SubSeq(s, 1, Len(s) - 1))
         + (CHOOSE d \in 0..9 : Digit(d) = s[Len(s)])

\* a text field read back: the empty field is NaN
ReadText(f) == IF f = << >> THEN NaN ELSE Text(f)

\* a line of the export read back as a row, its fields taken in the order of
\* the dataset's columns
ReadLine(line) == Song(StrToInt(line[1]), ReadText(line[2]), ReadText(line[3]),
                       line[4], StrToInt(line[5]), line[6])

\* C9: the export of a non-empty result is a header line naming the dataset's
\* columns in order, then one line per result row, in result order, with one
\* field per column (no index column); read back, the lines are the rows of
\* the result table.
C9_ExportIsFilteredRows ==
    view = "results" =>
        /\ {"result_table", "download"} \subseteq rendered
        /\ table = filtered_songs
        /\ filtered_songs = Result
        /\ Len(csv) = Len(table) + 1
        /\ csv[1] = Columns
        /\ \A i \in 1..Len(table) :
              /\ Len(csv[i + 1]) = Len(Columns)
              /\ ReadLine(csv[i + 1]) = table[i].row

C9_Witness ==
    /\ view = "results"
    /\ Len(table) >= 2
    /\ Len(table) < Len(songs_df)
    /\ \E i \in 1..Len(table) : table[i].row.artist_name.na
    /\ table[1].index # 0

\* C10 as stated: every run over a non-empty dataset renders exactly one of
\* two views: the results (or 'no matches') view if the button was pressed in
\* that run, the preview otherwise; the preview is the first 10 rows of the
\* whole dataset whatever the widgets hold, with the row-count caption iff
\* the dataset has more than 10 rows.
C10_ExactlyOneView ==
    ~Empty(songs_df) =>
        /\ clicked => Searched
        /\ ~clicked =>
              /\ view = "preview"
              /\ table = SubSeq(songs_df, 1, IF Len(songs_df) < 10 THEN Len(songs_df) ELSE 10)
              /\ ("caption" \in rendered) <=> (Len(songs_df) > 10)
        /\ ("preview_table" \in rendered) <=> ~("results_header" \in rendered)

====
